---- MODULE Spec2Model ----
(***************************************************************************)
(* Model of the focus timer: TimerService (app/services/timer_service.py), *)
(* the record it hands to the store (app/models/record.py) and the main    *)
(* window handlers that drive it (app/ui/main_window.py).                  *)
(*                                                                         *)
(* Time: a datetime is an integer number of clock ticks, TicksPerSec ticks *)
(* to the second.  datetime.now() is the naive local wall clock: the       *)
(* variable clock is its current reading.  It normally advances, and it    *)
(* may be set back (clock adjustment, end of daylight saving time).        *)
(***************************************************************************)
EXTENDS Integers, Sequences, FiniteSets, TLC

TicksPerSec == 2
MaxTime == 4
MaxSegments == 2
MaxRecords == 1
MaxFileRows == 2
MaxStoreRows == 3
MaxDayRecords == 2

\* Optional[T]: None is the empty tuple, a value t is <<t>>.
None == <<>>
Some(t) == <<t>>
Val(x) == x[1]

VARIABLES
    clock,              \* the reading datetime.now() returns
    first_start_dt,     \* TimerService._first_start_dt
    current_start_dt,   \* TimerService._current_start_dt
    accumulated_sec,    \* TimerService._accumulated_sec
    timer_active,       \* TimerService._timer (QTimer) is active
    op,                 \* the TimerService method the last step called
    ret,                \* what that call returned
    emitted,            \* the signals that call emitted, in order
    ui,                 \* the MainWindow handler that made the call, if one did
    dialog,             \* how the NoteDialog that step showed was closed, if it showed one
    records,            \* history: the records passed to ExcelStore.add_record, in order
    sheet_header,       \* the workbook: row 1 of sheet "records"
    sheet_rows,         \* the workbook: the rows below it
    date_to_records,    \* ExcelStore.date_to_records
    date_to_total_minutes, \* ExcelStore.date_to_total_minutes
    returned,           \* the list the last get_records_for_date call returned
    manual,             \* ManualRecordDialog: "closed" or "open"
    manual_in,          \* history: the fields of the dialog when OK was last pressed
    rec,                \* the TimeRecord last constructed
    rec_by,             \* the code path that constructed it
    agg_in,             \* WeekGrid.update_data: the records of the day
    agg_out,            \* WeekGrid.update_data: period_seconds_map of that day
    listed,             \* StatsView._show_records_for_period: the period and the records listed
    disp_running,       \* TimerDisplay._is_running
    disp_paused,        \* TimerDisplay._is_paused
    current_date,       \* StatsView._current_date, a day number (day 0 is a Monday)
    mode,               \* StatsView._mode
    total_shown,        \* the seconds StatsView._show_default_total was last given
    stack,              \* the view MainWindow._stack shows: "timer" or "stats"
    opened_at,          \* history: clock reading when the session was opened
    seg_from,           \* history: clock reading when the open segment began
    nsegs,              \* history: number of Running segments opened in the session
    worked              \* history: sum of the rounded lengths of its closed segments

vars == <<clock, first_start_dt, current_start_dt, accumulated_sec, timer_active,
          op, ret, emitted, ui, dialog, records, sheet_header, sheet_rows,
          date_to_records, date_to_total_minutes, returned, manual, manual_in,
          rec, rec_by, agg_in, agg_out, listed, disp_running, disp_paused,
          current_date, mode, total_shown, stack, opened_at, seg_from, nsegs, worked>>

svc == <<first_start_dt, current_start_dt, accumulated_sec, timer_active>>
hist == <<opened_at, seg_from, nsegs, worked>>
store == <<records, sheet_header, sheet_rows, date_to_records, date_to_total_minutes>>
\* What the stopwatch and its handlers never touch.
statsview == <<current_date, mode, total_shown, stack>>
rest == <<returned, manual, manual_in, rec, rec_by, agg_in, agg_out, listed, statsview>>
\* What the store, the dialogs and the views never touch.
display == <<disp_running, disp_paused>>
stopwatch == <<clock, first_start_dt, current_start_dt, accumulated_sec, timer_active,
               op, ret, emitted, ui, dialog, disp_running, disp_paused,
               opened_at, seg_from, nsegs, worked>>

\* The history of a session is kept until the step after the stop() that ends it.
HistKeep ==
    IF first_start_dt = <<>>
    THEN opened_at' = <<>> /\ seg_from' = <<>> /\ nsegs' = 0 /\ worked' = 0
    ELSE UNCHANGED hist

----------------------------------------------------------------------------
(* Pure helpers *)

FloorDiv(n, d) == n \div d

\* Python round(n / d) for an exact quotient, d > 0: ties go to the even integer.
RoundHalfEven(n, d) ==
    LET fl == n \div d
        r == n % d
    IN  IF 2 * r < d THEN fl
        ELSE IF 2 * r > d THEN fl + 1
        ELSE IF fl % 2 = 0 THEN fl ELSE fl + 1

\* Python int(n / d) for d > 0: truncation toward zero.
TruncDiv(n, d) == IF n >= 0 THEN n \div d ELSE -((-n) \div d)

\* int(round((now - start).total_seconds()))
SegmentSeconds(start, now) == RoundHalfEven(now - start, TicksPerSec)

\* TimerService._fmt: "HH:MM:SS" as the three numbers it prints.
Fmt(seconds) == <<seconds \div 3600, (seconds % 3600) \div 60, seconds % 60>>

is_running == current_start_dt # None

is_paused ==
    /\ first_start_dt # None
    /\ current_start_dt = None
    /\ accumulated_sec >= 0

\* The early returns of start(), pause(), resume() and stop().
StartIsNoopRunningOnly == is_running
StartIsNoop == is_running \/ is_paused
PauseIsNoop == ~is_running
ResumeIsNoopIdleOnly == first_start_dt = None
ResumeIsNoop == ~is_paused
StopNeverNoop == FALSE
StopIsNoop == first_start_dt = None /\ current_start_dt = None

\* _accumulated_sec after pause() at `now`.
PauseAccumulatedOverwrite(acc, start, now) == SegmentSeconds(start, now)
PauseAccumulated(acc, start, now) == acc + SegmentSeconds(start, now)

\* total computed by stop() at `now`.
StopTotal(acc, start, now) ==
    IF start # None THEN acc + SegmentSeconds(Val(start), now) ELSE acc

\* The tuple stop() returns at `now`: (start_dt, end_dt, int(total)).
StopResultFromSegment(first, start, acc, now) ==
    <<IF start # None THEN Val(start) ELSE IF first # None THEN Val(first) ELSE now,
      now, StopTotal(acc, start, now)>>
StopResult(first, start, acc, now) ==
    <<IF first # None THEN Val(first) ELSE now, now, StopTotal(acc, start, now)>>

\* TimerService._current_elapsed
CurrentElapsed ==
    IF is_running
    THEN accumulated_sec + SegmentSeconds(Val(current_start_dt), clock)
    ELSE accumulated_sec

\* TimerService._current_elapsed_float, in ticks.
CurrentElapsedTicks ==
    IF is_running
    THEN accumulated_sec * TicksPerSec + (clock - Val(current_start_dt))
    ELSE accumulated_sec * TicksPerSec

\* TimeRecord.from_datetimes_with_elapsed
DateOf(t) == t \div (86400 * TicksPerSec)
TimeOf(t) == (t % (86400 * TicksPerSec)) \div TicksPerSec
from_datetimes_with_elapsed(start_dt, end_dt, elapsed_seconds, note) ==
    LET total_seconds == IF elapsed_seconds > 0 THEN elapsed_seconds ELSE 0
    IN  [date |-> DateOf(start_dt),
         start_time |-> TimeOf(start_dt),
         end_time |-> TimeOf(end_dt),
         duration_min |-> RoundHalfEven(total_seconds, 60),
         duration_sec |-> total_seconds,
         note |-> note]

\* NoteDialog.get_text: the stripped text, or None when the dialog is cancelled.
NoteAnswers == {None, Some("")}

----------------------------------------------------------------------------
(* TimeRecord: the other two ways a record is built *)

\* TimeRecord.from_datetimes
from_datetimes(start_dt, end_dt, note) ==
    LET total_seconds == RoundHalfEven(end_dt - start_dt, TicksPerSec)
    IN  [date |-> DateOf(start_dt),
         start_time |-> TimeOf(start_dt),
         end_time |-> TimeOf(end_dt),
         duration_min |-> RoundHalfEven(total_seconds, 60),
         duration_sec |-> total_seconds,
         note |-> note]

\* ManualRecordDialog._build_record on the fields (date, start, end, note); the
\* times are QTime values, in seconds of the day.  None when end is not after start.
BuildAcceptsAnyOrder(start_sec, end_sec) == FALSE
BuildRejects(start_sec, end_sec) == end_sec - start_sec <= 0
_build_record(d, start_sec, end_sec, note) ==
    LET diff == end_sec - start_sec
    IN  IF BuildRejects(start_sec, end_sec)
        THEN None
        ELSE Some([date |-> d,
                   start_time |-> start_sec,
                   end_time |-> end_sec,
                   duration_min |-> RoundHalfEven(diff, 60),
                   duration_sec |-> diff,
                   note |-> note])

----------------------------------------------------------------------------
(* ExcelStore *)

\* A dict is a function on the set of its keys.
EmptyDict == <<>>
DictGet(f, k, default) == IF k \in DOMAIN f THEN f[k] ELSE default
DictSet(f, k, v) == [x \in (DOMAIN f) \cup {k} |-> IF x = k THEN v ELSE f[x]]

FullHeader == <<"date", "start_time", "end_time", "duration_sec", "duration_min", "note">>
LegacyHeader == <<"date", "start_time", "end_time", "duration_min", "note">>

\* Cells.  An empty cell is None; a text cell is <<"str", kind, ...>> where kind
\* tells what the text spells; a number cell is <<"int", n>>.
\* date.strftime("%Y-%m-%d") and time.strftime("%H:%M:%S")
DateText(d) == <<"str", "date", d>>
TimeText(t) == <<"str", "time", t \div 3600, (t % 3600) \div 60, t % 60>>
NoteText(n) == <<"str", "note", n>>
IntCell(n) == <<"int", n>>
BadText == <<"str", "other">>

IsDateText(c) == Len(c) = 3 /\ c[1] = "str" /\ c[2] = "date"
IsTimeText(c) == Len(c) = 5 /\ c[1] = "str" /\ c[2] = "time"
IsInt(c) == Len(c) = 2 /\ c[1] = "int"
IsNoteText(c) == Len(c) = 3 /\ c[1] = "str" /\ c[2] = "note"

\* name_to_idx.get(name, -1), 1-based; 0 when the header has no such column.
ColumnOf(header, name) ==
    IF \E i \in 1..Len(header) : header[i] = name
    THEN CHOOSE i \in 1..Len(header) :
            header[i] = name /\ \A j \in (i + 1)..Len(header) : header[j] # name
    ELSE 0

\* row[name_to_idx[name]], None when the column or the cell is missing.
CellOf(header, row, name) ==
    LET i == ColumnOf(header, name)
    IN  IF i = 0 \/ i > Len(row) THEN None ELSE row[i]

\* One pass of the loop of _load_all: the record of the row, or None when the
\* row is skipped (a missing date/start/end cell, or a value that fails to parse).
LoadRow(header, row) ==
    LET d_str == CellOf(header, row, "date")
        start_str == CellOf(header, row, "start_time")
        end_str == CellOf(header, row, "end_time")
        duration_min == CellOf(header, row, "duration_min")
        duration_sec == CellOf(header, row, "duration_sec")
        note == CellOf(header, row, "note")
        mins == IF duration_min # None THEN duration_min[2] ELSE 0
        secs == IF duration_sec # None THEN duration_sec[2] ELSE mins * 60
    IN  IF d_str = None \/ start_str = None \/ end_str = None THEN None
        ELSE IF ~IsDateText(d_str) \/ ~IsTimeText(start_str) \/ ~IsTimeText(end_str) THEN None
        ELSE IF duration_min # None /\ ~IsInt(duration_min) THEN None
        ELSE IF duration_sec # None /\ ~IsInt(duration_sec) THEN None
        ELSE Some([date |-> d_str[3],
                   start_time |-> start_str[3] * 3600 + start_str[4] * 60 + start_str[5],
                   end_time |-> end_str[3] * 3600 + end_str[4] * 60 + end_str[5],
                   duration_min |-> mins,
                   duration_sec |-> secs,
                   note |-> IF IsNoteText(note) THEN note[3] ELSE ""])

\* The two index updates that follow an append, in _load_all and in add_record.
RecordsAfterAddReplace(recs, record) == DictSet(recs, record.date, <<record>>)
RecordsAfterAdd(recs, record) ==
    DictSet(recs, record.date, Append(DictGet(recs, record.date, <<>>), record))
TotalsAfterAddSeconds(totals, record) ==
    DictSet(totals, record.date, DictGet(totals, record.date, 0) + record.duration_sec)
TotalsAfterAdd(totals, record) ==
    DictSet(totals, record.date, DictGet(totals, record.date, 0) + record.duration_min)

RECURSIVE LoadRecordsStopsAtMalformed(_, _)
LoadRecordsStopsAtMalformed(header, rows) ==
    IF rows = <<>> THEN EmptyDict
    ELSE LET n == Len(rows)
             before == LoadRecordsStopsAtMalformed(header, SubSeq(rows, 1, n - 1))
             r == LoadRow(header, rows[n])
         IN  IF r = None \/ \E i \in 1..(n - 1) : LoadRow(header, rows[i]) = None
             THEN before
             ELSE RecordsAfterAdd(before, Val(r))

\* ExcelStore._load_all: the two indexes rebuilt from the rows.
RECURSIVE LoadRecords(_, _)
LoadRecords(header, rows) ==
    IF rows = <<>> THEN EmptyDict
    ELSE LET n == Len(rows)
             before == LoadRecords(header, SubSeq(rows, 1, n - 1))
             r == LoadRow(header, rows[n])
         IN  IF r = None THEN before ELSE RecordsAfterAdd(before, Val(r))

RECURSIVE LoadTotals(_, _)
LoadTotals(header, rows) ==
    IF rows = <<>> THEN EmptyDict
    ELSE LET n == Len(rows)
             before == LoadTotals(header, SubSeq(rows, 1, n - 1))
             r == LoadRow(header, rows[n])
         IN  IF r = None THEN before ELSE TotalsAfterAdd(before, Val(r))

\* The records _load_all keeps, in file order.
RECURSIVE LoadedSeq(_, _)
LoadedSeq(header, rows) ==
    IF rows = <<>> THEN <<>>
    ELSE LET n == Len(rows)
             before == LoadedSeq(header, SubSeq(rows, 1, n - 1))
             r == LoadRow(header, rows[n])
         IN  IF r = None THEN before ELSE Append(before, Val(r))

\* ExcelStore._ensure_file on an existing sheet: the header it leaves.
EnsureHeader(header) ==
    IF header # <<>> /\ ColumnOf(header, "duration_sec") = 0
    THEN Append(header, "duration_sec")
    ELSE header

RowToWriteFullOrder(header, record) ==
    << DateText(record.date), TimeText(record.start_time), TimeText(record.end_time),
       IntCell(record.duration_sec), IntCell(record.duration_min), NoteText(record.note) >>

\* The row add_record writes, in the order of the header.
RowToWrite(header, record) ==
    [i \in 1..Len(header) |->
        IF header[i] = "date" THEN DateText(record.date)
        ELSE IF header[i] = "start_time" THEN TimeText(record.start_time)
        ELSE IF header[i] = "end_time" THEN TimeText(record.end_time)
        ELSE IF header[i] = "duration_sec" THEN IntCell(record.duration_sec)
        ELSE IF header[i] = "duration_min" THEN IntCell(record.duration_min)
        ELSE IF header[i] = "note" THEN NoteText(record.note)
        ELSE NoteText("")]

\* ExcelStore.add_record
add_record(record) ==
    LET header == IF ColumnOf(sheet_header, "duration_sec") = 0
                  THEN Append(sheet_header, "duration_sec")
                  ELSE sheet_header
    IN  /\ sheet_header' = header
        /\ sheet_rows' = Append(sheet_rows, RowToWrite(header, record))
        /\ date_to_records' = RecordsAfterAdd(date_to_records, record)
        /\ date_to_total_minutes' = TotalsAfterAdd(date_to_total_minutes, record)
        /\ records' = Append(records, record)

\* ExcelStore.get_records_for_date and get_total_minutes
get_records_for_date(d) == DictGet(date_to_records, d, <<>>)
get_total_minutes(d) == DictGet(date_to_total_minutes, d, 0)

\* ---- StatsView: the range on display and its total ----

\* Dates are day numbers; day 0 is Monday 2024-01-01, so date.weekday() is d % 7.
weekday(d) == d % 7

\* The calendar the view navigates: the first days of December 2023, January
\* 2024 and February 2024, and the day after the last day of February 2024.
MonthStarts == <<-31, 0, 31, 60>>

FirstDay == MonthStarts[1]
LastDay == MonthStarts[Len(MonthStarts)] - 1

\* (y, m) of a date, as an index into MonthStarts.
MonthOf(d) ==
    CHOOSE i \in 1..(Len(MonthStarts) - 1) : MonthStarts[i] <= d /\ d < MonthStarts[i + 1]

\* calendar.monthrange(y, m)[1]
last_day(m) == MonthStarts[m + 1] - MonthStarts[m]

\* sum(r.duration_sec for r in recs)
RECURSIVE sum_duration_sec(_)
sum_duration_sec(recs) ==
    IF recs = <<>> THEN 0 ELSE Head(recs).duration_sec + sum_duration_sec(Tail(recs))

\* The loop over n consecutive dates from first, adding each day's total.
RECURSIVE TotalOverDays(_, _)
TotalOverDays(first, n) ==
    IF n = 0
    THEN 0
    ELSE sum_duration_sec(get_records_for_date(first)) + TotalOverDays(first + 1, n - 1)

\* A week loop that stops at Saturday.
LoadWeekSixDays == TotalOverDays(current_date - weekday(current_date), 6)

\* StatsView._load_week with WeekGrid.update_data: total_week_seconds.
_load_week == TotalOverDays(current_date - weekday(current_date), 7)

\* StatsView._load_month: total_sec.
_load_month ==
    LET m == MonthOf(current_date)
    IN  TotalOverDays(MonthStarts[m], last_day(m))

\* StatsView._refresh: the seconds handed to _show_default_total.
_refresh == IF mode = "week" THEN _load_week ELSE _load_month

\* StatsView._show_default_total: the label text "<h>h <m>m".
_show_default_total(seconds) == <<seconds \div 3600, (seconds % 3600) \div 60>>

\* get_records_for_date returns list(...): a copy, not the list the index holds.
ReturnsAlias == FALSE

----------------------------------------------------------------------------
(* State after TimerService.__init__ and an empty store *)

Init ==
    /\ clock \in 0..1
    /\ first_start_dt = None
    /\ current_start_dt = None
    /\ accumulated_sec = 0
    /\ timer_active = FALSE
    /\ op = "init"
    /\ ret = None
    /\ emitted = <<>>
    /\ ui = "none"
    /\ dialog = "none"
    /\ records = <<>>
    /\ sheet_header = FullHeader
    /\ sheet_rows = <<>>
    /\ date_to_records = EmptyDict
    /\ date_to_total_minutes = EmptyDict
    /\ returned = None
    /\ manual = "closed"
    /\ manual_in = None
    /\ rec = None
    /\ rec_by = <<"none">>
    /\ agg_in = <<>>
    /\ agg_out = <<0, 0, 0>>
    /\ listed = None
    /\ disp_running = FALSE
    /\ disp_paused = FALSE
    /\ current_date = 0
    /\ mode = "week"
    /\ total_shown = 0
    /\ stack = "timer"
    /\ opened_at = None
    /\ seg_from = None
    /\ nsegs = 0
    /\ worked = 0

----------------------------------------------------------------------------
(* The wall clock *)

ClockAdvance ==
    /\ clock < MaxTime
    /\ clock' = clock + 1
    /\ op' = "clock" /\ ret' = None /\ emitted' = <<>> /\ ui' = "none" /\ dialog' = "none"
    /\ UNCHANGED <<svc, display, store, rest>> /\ HistKeep

ClockSetBack ==
    /\ clock > 0
    /\ clock' = clock - 1
    /\ op' = "clock" /\ ret' = None /\ emitted' = <<>> /\ ui' = "none" /\ dialog' = "none"
    /\ UNCHANGED <<svc, display, store, rest>> /\ HistKeep

----------------------------------------------------------------------------
(* TimerService *)

\* MainWindow._sync_buttons with TimerDisplay.set_running_state: the slot of
\* started, paused, resumed and stopped.  It runs inside emit(), which each
\* method calls after it has assigned its fields.
SyncBeforeUpdate == disp_running' = is_running /\ disp_paused' = is_paused
_sync_buttons == disp_running' = is_running' /\ disp_paused' = is_paused'

StartBody ==
    /\ op' = "start"
    /\ ret' = None
    /\ IF StartIsNoop
       THEN /\ emitted' = <<>>
            /\ UNCHANGED <<svc, display>> /\ HistKeep
       ELSE /\ first_start_dt' = Some(clock)
            /\ current_start_dt' = Some(clock)
            /\ accumulated_sec' = 0
            /\ timer_active' = TRUE
            /\ emitted' = << <<"started">>, <<"tick", 0, <<0, 0, 0>>>> >>
            /\ opened_at' = Some(clock)
            /\ seg_from' = Some(clock)
            /\ nsegs' = 1
            /\ worked' = 0
            /\ _sync_buttons

PauseBodyKeepsTimer ==
    /\ op' = "pause"
    /\ ret' = None
    /\ IF PauseIsNoop
       THEN /\ emitted' = <<>>
            /\ UNCHANGED <<svc, display>> /\ HistKeep
       ELSE /\ accumulated_sec' = PauseAccumulated(accumulated_sec, Val(current_start_dt), clock)
            /\ current_start_dt' = None
            /\ emitted' = << <<"paused">> >>
            /\ worked' = worked + RoundHalfEven(clock - Val(seg_from), TicksPerSec)
            /\ seg_from' = None
            /\ UNCHANGED <<first_start_dt, timer_active, opened_at, nsegs>>
            /\ _sync_buttons

PauseBody ==
    /\ op' = "pause"
    /\ ret' = None
    /\ IF PauseIsNoop
       THEN /\ emitted' = <<>>
            /\ UNCHANGED <<svc, display>> /\ HistKeep
       ELSE /\ accumulated_sec' = PauseAccumulated(accumulated_sec, Val(current_start_dt), clock)
            /\ current_start_dt' = None
            /\ timer_active' = FALSE
            /\ emitted' = << <<"paused">> >>
            /\ worked' = worked + RoundHalfEven(clock - Val(seg_from), TicksPerSec)
            /\ seg_from' = None
            /\ UNCHANGED <<first_start_dt, opened_at, nsegs>>
            /\ _sync_buttons

ResumeBody ==
    /\ op' = "resume"
    /\ ret' = None
    /\ IF ResumeIsNoop
       THEN /\ emitted' = <<>>
            /\ UNCHANGED <<svc, display>> /\ HistKeep
       ELSE /\ nsegs < MaxSegments
            /\ current_start_dt' = Some(clock)
            /\ timer_active' = TRUE
            /\ emitted' = << <<"resumed">> >>
            /\ seg_from' = Some(clock)
            /\ nsegs' = nsegs + 1
            /\ UNCHANGED <<first_start_dt, accumulated_sec, opened_at, worked>>
            /\ _sync_buttons

StopBodyKeepsTimer ==
    /\ op' = "stop"
    /\ IF StopIsNoop
       THEN /\ ret' = None
            /\ emitted' = <<>>
            /\ UNCHANGED <<svc, display>> /\ HistKeep
       ELSE LET now == clock
                res == StopResult(first_start_dt, current_start_dt, accumulated_sec, now)
            IN  /\ first_start_dt' = None
                /\ current_start_dt' = None
                /\ accumulated_sec' = 0
                /\ emitted' = << <<"stopped", res[3]>>, <<"tick", 0, <<0, 0, 0>>>> >>
                /\ ret' = res
                /\ worked' = IF seg_from # None
                             THEN worked + RoundHalfEven(now - Val(seg_from), TicksPerSec)
                             ELSE worked
                /\ seg_from' = None
                /\ UNCHANGED <<timer_active, opened_at, nsegs>>
                /\ _sync_buttons

StopBody ==
    /\ op' = "stop"
    /\ IF StopIsNoop
       THEN /\ ret' = None
            /\ emitted' = <<>>
            /\ UNCHANGED <<svc, display>> /\ HistKeep
       ELSE LET now == clock
                res == StopResult(first_start_dt, current_start_dt, accumulated_sec, now)
            IN  /\ first_start_dt' = None
                /\ current_start_dt' = None
                /\ accumulated_sec' = 0
                /\ timer_active' = FALSE
                /\ emitted' = << <<"stopped", res[3]>>, <<"tick", 0, <<0, 0, 0>>>> >>
                /\ ret' = res
                /\ worked' = IF seg_from # None
                             THEN worked + RoundHalfEven(now - Val(seg_from), TicksPerSec)
                             ELSE worked
                /\ seg_from' = None
                /\ UNCHANGED <<opened_at, nsegs>>
                /\ _sync_buttons

\* The methods called directly (MainWindow._on_start_clicked is start() itself).
Start == StartBody /\ ui' = "none" /\ dialog' = "none" /\ UNCHANGED <<clock, store, rest>>
Pause == PauseBody /\ ui' = "none" /\ dialog' = "none" /\ UNCHANGED <<clock, store, rest>>
Resume == ResumeBody /\ ui' = "none" /\ dialog' = "none" /\ UNCHANGED <<clock, store, rest>>
Stop == StopBody /\ ui' = "none" /\ dialog' = "none" /\ UNCHANGED <<clock, store, rest>>

OnTickAccumulates ==
    /\ timer_active
    /\ LET total == CurrentElapsedTicks
           seconds_int == TruncDiv(total, TicksPerSec)
           tenths == TruncDiv((total - seconds_int * TicksPerSec) * 10, TicksPerSec) % 10
           base == Fmt(seconds_int)
           formatted == Append(base, tenths)    \* self._last_formatted
       IN  emitted' = << <<"tick", seconds_int, formatted>> >>
    /\ op' = "tick"
    /\ ret' = None
    /\ ui' = "none"
    /\ dialog' = "none"
    /\ accumulated_sec' = CurrentElapsed
    /\ UNCHANGED <<clock, first_start_dt, current_start_dt, timer_active, display, store, rest>> /\ HistKeep

\* TimerService._on_tick, called by the QTimer while it is active.
OnTick ==
    /\ timer_active
    /\ LET total == CurrentElapsedTicks
           seconds_int == TruncDiv(total, TicksPerSec)
           tenths == TruncDiv((total - seconds_int * TicksPerSec) * 10, TicksPerSec) % 10
           base == Fmt(seconds_int)
           formatted == Append(base, tenths)    \* self._last_formatted
       IN  emitted' = << <<"tick", seconds_int, formatted>> >>
    /\ op' = "tick"
    /\ ret' = None
    /\ ui' = "none"
    /\ dialog' = "none"
    /\ UNCHANGED <<clock, svc, display, store, rest>> /\ HistKeep

\* TimerService._current_elapsed and _current_elapsed_float, read by a caller.
ReadElapsed ==
    /\ op' = "elapsed"
    /\ ret' = <<CurrentElapsed, CurrentElapsedTicks>>
    /\ emitted' = <<>>
    /\ ui' = "none"
    /\ dialog' = "none"
    /\ UNCHANGED <<clock, svc, display, store, rest>> /\ HistKeep

----------------------------------------------------------------------------
(* TimerDisplay: what its two buttons do in the state it mirrors *)

\* TimerDisplay._on_action_clicked: the signal the action button emits.
_on_action_clicked ==
    IF disp_running THEN "pause_requested"
    ELSE IF disp_paused THEN "pause_requested"
    ELSE "start_requested"

\* The TimerService method MainWindow calls on that signal
\* (_on_start_clicked, _on_pause_clicked).
RequestedOperation ==
    IF _on_action_clicked = "start_requested" THEN "start"
    ELSE IF is_running THEN "pause"
    ELSE IF is_paused THEN "resume"
    ELSE "none"

\* TimerDisplay.set_running_state: self._stop_btn.setVisible(...)
stop_btn_visible == disp_running \/ disp_paused

----------------------------------------------------------------------------
(* MainWindow handlers *)

\* MainWindow._on_pause_clicked
OnPauseClicked ==
    /\ IF is_running THEN PauseBody
       ELSE IF is_paused THEN ResumeBody
       ELSE /\ op' = "none" /\ ret' = None /\ emitted' = <<>>
            /\ UNCHANGED <<svc, display>> /\ HistKeep
    /\ ui' = "pause_clicked"
    /\ dialog' = "none"
    /\ UNCHANGED <<clock, store, rest>>

OnRecordClickedStoresOnCancel ==
    /\ Len(records) < MaxRecords
    /\ StopBody
    /\ ui' = "record_clicked"
    /\ IF ret' = None
       THEN dialog' = "none" /\ UNCHANGED store
       ELSE \E note \in NoteAnswers :
               /\ dialog' = IF note = None THEN "cancelled" ELSE "accepted"
               /\ add_record(from_datetimes_with_elapsed(ret'[1], ret'[2], ret'[3], ""))
    /\ UNCHANGED <<clock, rest>>

\* MainWindow._on_record_clicked with ExcelStore.add_record
OnRecordClicked ==
    /\ Len(records) < MaxRecords
    /\ StopBody
    /\ ui' = "record_clicked"
    /\ IF ret' = None
       THEN dialog' = "none" /\ UNCHANGED store
       ELSE \E note \in NoteAnswers :
               IF note = None
               THEN dialog' = "cancelled" /\ UNCHANGED store
               ELSE /\ dialog' = "accepted"
                    /\ add_record(from_datetimes_with_elapsed(ret'[1], ret'[2], ret'[3],
                                                              Val(note)))
    /\ UNCHANGED <<clock, rest>>

Next ==
    \/ ClockAdvance
    \/ ClockSetBack
    \/ Start
    \/ Pause
    \/ Resume
    \/ Stop
    \/ OnTick
    \/ OnPauseClicked
    \/ OnRecordClicked

Spec == Init /\ [][Next]_vars

\* TimerService on its own, its methods called in any order.  The QTimer fires
\* every 100 ms for as long as it is active and the event loop runs.
TimerNext ==
    \/ ClockAdvance
    \/ ClockSetBack
    \/ Start
    \/ Pause
    \/ Resume
    \/ Stop
    \/ OnTick
    \/ ReadElapsed

TimerSpec == Init /\ [][TimerNext]_vars

LiveSpec == Init /\ [][TimerNext]_vars /\ WF_vars(OnTick)

\* The stopwatch under a clock that never goes back (a monotonic clock).
MonotonicNext ==
    \/ ClockAdvance
    \/ Start
    \/ Pause
    \/ Resume
    \/ Stop
    \/ OnTick
    \/ OnPauseClicked
    \/ OnRecordClicked

MonotonicSpec == Init /\ [][MonotonicNext]_vars

----------------------------------------------------------------------------
(* ExcelStore opened on an existing file, and the manual-entry dialog *)

Dates == {0, 1}
\* 09:00:00, 09:00:30, 10:30:00 as seconds of the day
ManualTimes == {32400, 32430, 37800}

SeqsUpTo(S, n) == UNION {[1..k -> S] : k \in 0..n}

\* Rows an earlier run wrote under `header`, a row whose date does not parse
\* and a row whose date cell is empty.
FileRowsOf(header) ==
    LET r0 == Val(_build_record(0, 32400, 37800, ""))
        r1 == Val(_build_record(1, 32430, 37800, ""))
    IN  { RowToWrite(header, r0),
          RowToWrite(header, r1),
          [RowToWrite(header, r0) EXCEPT ![ColumnOf(header, "date")] = BadText],
          [RowToWrite(header, r1) EXCEPT ![ColumnOf(header, "date")] = None] }

\* ExcelStore.__init__ on a file that exists: _ensure_file, then _load_all.
StoreInit ==
    /\ clock = 0
    /\ first_start_dt = None
    /\ current_start_dt = None
    /\ accumulated_sec = 0
    /\ timer_active = FALSE
    /\ op = "init"
    /\ ret = None
    /\ emitted = <<>>
    /\ ui = "none"
    /\ dialog = "none"
    /\ \E header \in {FullHeader, LegacyHeader} :
         \E rows \in SeqsUpTo(FileRowsOf(header), MaxFileRows) :
            /\ sheet_header = EnsureHeader(header)
            /\ sheet_rows = rows
            /\ date_to_records = LoadRecords(EnsureHeader(header), rows)
            /\ date_to_total_minutes = LoadTotals(EnsureHeader(header), rows)
            /\ records = LoadedSeq(EnsureHeader(header), rows)
    /\ returned = None
    /\ manual = "closed"
    /\ manual_in = None
    /\ rec = None
    /\ rec_by = <<"none">>
    /\ agg_in = <<>>
    /\ agg_out = <<0, 0, 0>>
    /\ listed = None
    /\ disp_running = FALSE
    /\ disp_paused = FALSE
    /\ current_date = 0
    /\ mode = "week"
    /\ total_shown = _refresh
    /\ stack = "timer"
    /\ opened_at = None
    /\ seg_from = None
    /\ nsegs = 0
    /\ worked = 0

\* MainWindow._on_manual_record up to dlg.get_record(): the dialog is shown.
OnManualRecord ==
    /\ manual = "closed"
    /\ Len(sheet_rows) < MaxStoreRows
    /\ manual' = "open"
    /\ manual_in' = None
    /\ UNCHANGED <<store, returned, rec, rec_by, agg_in, agg_out, listed, statsview, stopwatch>>

\* ManualRecordDialog._on_accept on the fields (date, start, end); when the dialog
\* is accepted, the rest of _on_manual_record.
ManualOk ==
    /\ manual \in {"open", "warned"}
    /\ UNCHANGED <<current_date, mode, stack>>
    /\ \E d \in Dates, start_sec \in ManualTimes, end_sec \in ManualTimes :
          LET record == _build_record(d, start_sec, end_sec, "")
          IN  /\ manual_in' = Some(<<d, start_sec, end_sec>>)
              /\ IF record = None
                 THEN manual' = "warned" /\ UNCHANGED <<store, total_shown>>
                 ELSE /\ manual' = "closed"
                      /\ add_record(Val(record))
                      /\ total_shown' = IF stack = "stats" THEN _refresh' ELSE total_shown
    /\ UNCHANGED <<returned, rec, rec_by, agg_in, agg_out, listed, stopwatch>>

\* The dialog is rejected: get_record returns None.
ManualCancel ==
    /\ manual \in {"open", "warned"}
    /\ manual' = "closed"
    /\ manual_in' = None
    /\ UNCHANGED <<store, returned, rec, rec_by, agg_in, agg_out, listed, statsview, stopwatch>>

\* A view calls get_records_for_date(d) and keeps the list.
GetRecords ==
    /\ manual = "closed"
    /\ \E d \in Dates : returned' = Some(<<d, get_records_for_date(d)>>)
    /\ manual_in' = None
    /\ UNCHANGED <<store, manual, rec, rec_by, agg_in, agg_out, listed, statsview, stopwatch>>

\* The caller removes the first element of the list it was given.
MutateReturned ==
    /\ manual = "closed"
    /\ returned # None
    /\ Val(returned)[2] # <<>>
    /\ LET d == Val(returned)[1]
           mutated == Tail(Val(returned)[2])
       IN  /\ returned' = Some(<<d, mutated>>)
           /\ IF ReturnsAlias /\ d \in DOMAIN date_to_records
              THEN /\ date_to_records' = DictSet(date_to_records, d, mutated)
                   /\ UNCHANGED <<records, sheet_header, sheet_rows, date_to_total_minutes>>
              ELSE UNCHANGED store
    /\ manual_in' = None
    /\ UNCHANGED <<manual, rec, rec_by, agg_in, agg_out, listed, statsview, stopwatch>>

\* The records of a sequence that carry date d, in order.
OfDate(recs, d) ==
    LET HasDate(r) == r.date = d
    IN  SelectSeq(recs, HasDate)

IsPrefix(a, b) == Len(a) <= Len(b) /\ SubSeq(b, 1, Len(a)) = a

RECURSIVE SumMinutes(_)
SumMinutes(recs) ==
    IF recs = <<>> THEN 0 ELSE Head(recs).duration_min + SumMinutes(Tail(recs))

StoreNext ==
    \/ OnManualRecord
    \/ ManualOk
    \/ ManualCancel
    \/ GetRecords
    \/ MutateReturned

StoreSpec == StoreInit /\ [][StoreNext]_vars

----------------------------------------------------------------------------
(* StatsView over a store: the week and the month on display *)

\* date.today() when the view is built: Thursday 2024-01-04.
Today == 3

\* The dates that carry records in the file: the Sunday before the first week
\* of January, the Sunday that ends it, and the last day of January and the
\* first of February, which share a week.
RangeDates == {-1, 6, 30, 31}

RangeSeconds(d) ==
    CASE d = -1 -> 45
      [] d = 6 -> 600
      [] d = 30 -> 3600
      [] OTHER -> 7230

\* One session per date, from 23:50 to 00:10 of the next day.
RangeRows ==
    { RowToWrite(FullHeader,
                 from_datetimes_with_elapsed((d * 86400 + 85800) * TicksPerSec,
                                             (d * 86400 + 87000) * TicksPerSec,
                                             RangeSeconds(d), ""))
      : d \in RangeDates }

\* MainWindow.__init__ on a file of MaxFileRows sessions: the store is loaded,
\* then StatsView.__init__ ends with _refresh(); the timer view is on display.
RangeInit ==
    /\ clock = 0
    /\ first_start_dt = None
    /\ current_start_dt = None
    /\ accumulated_sec = 0
    /\ timer_active = FALSE
    /\ op = "init"
    /\ ret = None
    /\ emitted = <<>>
    /\ ui = "none"
    /\ dialog = "none"
    /\ \E rows \in [1..MaxFileRows -> RangeRows] :
          /\ sheet_header = FullHeader
          /\ sheet_rows = rows
          /\ date_to_records = LoadRecords(FullHeader, rows)
          /\ date_to_total_minutes = LoadTotals(FullHeader, rows)
          /\ records = LoadedSeq(FullHeader, rows)
    /\ returned = None
    /\ manual = "closed"
    /\ manual_in = None
    /\ rec = None
    /\ rec_by = <<"none">>
    /\ agg_in = <<>>
    /\ agg_out = <<0, 0, 0>>
    /\ listed = None
    /\ disp_running = FALSE
    /\ disp_paused = FALSE
    /\ current_date = Today
    /\ mode = "week"
    /\ total_shown = _refresh
    /\ stack = "timer"
    /\ opened_at = None
    /\ seg_from = None
    /\ nsegs = 0
    /\ worked = 0

RangeKeep ==
    /\ manual_in' = None
    /\ UNCHANGED <<store, returned, manual, rec, rec_by, agg_in, agg_out, listed, stopwatch>>

\* MainWindow._show_stats_view: refresh(), then the stats view is put on display.
ShowStatsView ==
    /\ manual = "closed"
    /\ stack = "timer"
    /\ UNCHANGED <<current_date, mode>>
    /\ RangeKeep
    /\ total_shown' = _refresh'
    /\ stack' = "stats"

\* MainWindow._show_timer_view
ShowTimerView ==
    /\ manual = "closed"
    /\ stack = "stats"
    /\ stack' = "timer"
    /\ UNCHANGED <<current_date, mode, total_shown>>
    /\ RangeKeep

\* StatsView._on_prev
OnPrev ==
    /\ manual = "closed"
    /\ stack = "stats"
    /\ IF mode = "week" THEN current_date - 7 >= FirstDay ELSE MonthOf(current_date) > 1
    /\ current_date' = IF mode = "week"
                       THEN current_date - 7
                       ELSE MonthStarts[MonthOf(current_date) - 1]
    /\ UNCHANGED <<mode, stack>>
    /\ RangeKeep
    /\ total_shown' = _refresh'

\* StatsView._on_next
OnNext ==
    /\ manual = "closed"
    /\ stack = "stats"
    /\ IF mode = "week"
       THEN current_date + 7 <= LastDay
       ELSE MonthOf(current_date) < Len(MonthStarts) - 1
    /\ current_date' = IF mode = "week"
                       THEN current_date + 7
                       ELSE MonthStarts[MonthOf(current_date) + 1]
    /\ UNCHANGED <<mode, stack>>
    /\ RangeKeep
    /\ total_shown' = _refresh'

\* StatsView._set_mode
SetMode ==
    /\ manual = "closed"
    /\ stack = "stats"
    /\ \E m \in {"week", "month"} : mode' = m
    /\ UNCHANGED <<current_date, stack>>
    /\ RangeKeep
    /\ total_shown' = _refresh'

RangeNext ==
    \/ ShowStatsView
    \/ ShowTimerView
    \/ OnPrev
    \/ OnNext
    \/ SetMode
    \/ OnManualRecord
    \/ ManualOk
    \/ ManualCancel

RangeSpec == RangeInit /\ [][RangeNext]_vars

----------------------------------------------------------------------------
(* The stopwatch state, by the code's own predicates *)

State ==
    IF first_start_dt = None /\ current_start_dt = None THEN "Idle"
    ELSE IF is_running THEN "Running"
    ELSE IF is_paused THEN "Paused"
    ELSE "Other"

Max(a, b) == IF a >= b THEN a ELSE b
Min(a, b) == IF a <= b THEN a ELSE b
Abs(a) == IF a >= 0 THEN a ELSE -a

----------------------------------------------------------------------------
(* TimeRecord: the four ways a record comes to exist *)

\* Datetimes the constructors are called on: 0 s, half a tick later, 30 s,
\* 90 s, 125 s and 150 s after midnight of day 0.
Instants == {0, 1, 30 * TicksPerSec, 90 * TicksPerSec, 125 * TicksPerSec, 150 * TicksPerSec}
ElapsedInputs == {-5, 0, 29, 30, 31, 59, 89, 90, 91, 125, 150}

\* Rows of a file as _load_all may find it: rows add_record wrote, a row whose
\* duration_sec cell was edited to a negative number, a row with text in it,
\* and a row whose date does not parse.
LoadableRows(header) ==
    LET r0 == Val(_build_record(0, 32400, 37800, ""))
        r1 == Val(_build_record(1, 32400, 32430, ""))
        row0 == RowToWrite(header, r0)
        sec == ColumnOf(header, "duration_sec")
    IN  { row0,
          RowToWrite(header, r1),
          [row0 EXCEPT ![sec] = IntCell(-5)],
          [row0 EXCEPT ![sec] = BadText],
          [row0 EXCEPT ![sec] = None],
          [row0 EXCEPT ![ColumnOf(header, "date")] = BadText] }

MakeFromDatetimes ==
    /\ \E start_dt \in Instants, end_dt \in Instants :
          /\ rec' = Some(from_datetimes(start_dt, end_dt, ""))
          /\ rec_by' = <<"datetimes", start_dt, end_dt>>
    /\ UNCHANGED <<store, returned, manual, manual_in, agg_in, agg_out, listed, statsview, stopwatch>>

MakeWithElapsed ==
    /\ \E start_dt \in {0, 1}, end_dt \in {1, 150 * TicksPerSec}, elapsed_seconds \in ElapsedInputs :
          /\ rec' = Some(from_datetimes_with_elapsed(start_dt, end_dt, elapsed_seconds, ""))
          /\ rec_by' = <<"elapsed", start_dt, end_dt, elapsed_seconds>>
    /\ UNCHANGED <<store, returned, manual, manual_in, agg_in, agg_out, listed, statsview, stopwatch>>

MakeManual ==
    /\ \E d \in Dates, start_sec \in ManualTimes, end_sec \in ManualTimes :
          /\ rec' = _build_record(d, start_sec, end_sec, "")
          /\ rec_by' = <<"manual", d, start_sec, end_sec>>
    /\ UNCHANGED <<store, returned, manual, manual_in, agg_in, agg_out, listed, statsview, stopwatch>>

MakeLoaded ==
    /\ \E header \in {FullHeader, EnsureHeader(LegacyHeader)} :
         \E row \in LoadableRows(header) :
            /\ rec' = LoadRow(header, row)
            /\ rec_by' = <<"loaded", header, row>>
    /\ UNCHANGED <<store, returned, manual, manual_in, agg_in, agg_out, listed, statsview, stopwatch>>

RecordNext ==
    \/ MakeFromDatetimes
    \/ MakeWithElapsed
    \/ MakeManual
    \/ MakeLoaded

RecordSpec == Init /\ [][RecordNext]_vars

----------------------------------------------------------------------------
(* WeekGrid.update_data: the period seconds of one day *)

\* The periods, in hours.
Periods == << <<0, 12>>, <<12, 18>>, <<18, 24>> >>

\* hour + minute / 60.0, kept exact as a number of minutes.
HourFraction(t) == (t \div 3600) * 60 + (t % 3600) \div 60

intersect(r_start, r_end, p_start, p_end) ==
    Max(0, Min(r_end, p_end) - Max(r_start, p_start))

\* What one record adds to period_seconds_map.  The quotient
\* duration * h_overlap / full_dur_h is taken exactly, then truncated by int().
PeriodSecondsOf(record) ==
    LET s == HourFraction(record.start_time)
        e0 == HourFraction(record.end_time)
        e == IF e0 < s THEN 24 * 60 ELSE e0
        duration == record.duration_sec
        full_dur_h == e - s
    IN  [p_idx \in 1..3 |->
            IF full_dur_h <= 0 THEN 0
            ELSE LET h_overlap == intersect(s, e, Periods[p_idx][1] * 60,
                                            Periods[p_idx][2] * 60)
                 IN  IF h_overlap > 0
                     THEN TruncDiv(duration * h_overlap, full_dur_h)
                     ELSE 0]

RECURSIVE PeriodSeconds(_)
PeriodSeconds(day_records) ==
    IF day_records = <<>> THEN <<0, 0, 0>>
    ELSE LET before == PeriodSeconds(SubSeq(day_records, 1, Len(day_records) - 1))
             add == PeriodSecondsOf(day_records[Len(day_records)])
         IN  [p_idx \in 1..3 |-> before[p_idx] + add[p_idx]]

\* Start and end times entered in the manual dialog: 09:00:00-09:00:05,
\* 09:00:05-09:00:50, 09:00:00-10:30:00, 11:00:00-13:00:00, 11:30:00-19:30:00,
\* 11:59:30-12:00:30.
DaySpans ==
    { <<32400, 32405>>, <<32405, 32450>>, <<32400, 37800>>, <<39600, 46800>>,
      <<41400, 70200>>, <<43170, 43230>> }

\* Records of day 0: the manual entries above, a session of 10:30-19:30 in
\* which 5 s were worked, a session of 1200 s started at 23:50 and stopped at
\* 00:10, and a session of 3600 s started at 09:00:50 and stopped at 09:00:05
\* of the next day.
DayRecords ==
    { Val(_build_record(0, p[1], p[2], "")) : p \in DaySpans }
    \cup { from_datetimes_with_elapsed(37800 * TicksPerSec, 70200 * TicksPerSec, 5, ""),
           from_datetimes_with_elapsed(85800 * TicksPerSec, 87000 * TicksPerSec, 1200, ""),
           from_datetimes_with_elapsed(32450 * TicksPerSec, 118805 * TicksPerSec, 3600, "") }

\* One column of WeekGrid.update_data: the records of the day go in, its
\* period_seconds_map comes out.
UpdateData ==
    /\ \E day_records \in SeqsUpTo(DayRecords, MaxDayRecords) :
          /\ agg_in' = day_records
          /\ agg_out' = PeriodSeconds(day_records)
    /\ listed' = None
    /\ UNCHANGED <<store, returned, manual, manual_in, rec, rec_by, statsview, stopwatch>>

\* update_data adds a share of the record to period p_idx: the record is not
\* skipped and 'if h_overlap > 0' holds.
CountedIn(record, p_idx) ==
    LET s == HourFraction(record.start_time)
        e0 == HourFraction(record.end_time)
        e == IF e0 < s THEN 24 * 60 ELSE e0
    IN  /\ e - s > 0
        /\ intersect(s, e, Periods[p_idx][1] * 60, Periods[p_idx][2] * 60) > 0

\* StatsView._show_records_for_period: the records handed to RecordListDialog.
\* period_idx is None (a day label was clicked) or Some(p_idx) (a block).
_show_records_for_period(day_records, period_idx) ==
    IF period_idx = None THEN day_records
    ELSE LET p_start_h == Periods[Val(period_idx)][1]
             p_end_h == Periods[Val(period_idx)][2]
             Overlaps(r) ==
                 LET s == HourFraction(r.start_time)
                     e0 == HourFraction(r.end_time)
                     e == IF e0 < s THEN 24 * 60 ELSE e0
                     overlap == Max(0, Min(e, p_end_h * 60) - Max(s, p_start_h * 60))
                 IN  overlap > 0
         IN  SelectSeq(day_records, Overlaps)

\* A block or a day label of the week heatmap is clicked.
ShowRecordsForPeriod ==
    /\ \E period_idx \in {None} \cup {Some(p_idx) : p_idx \in 1..3} :
          listed' = Some(<<period_idx, _show_records_for_period(agg_in, period_idx)>>)
    /\ UNCHANGED <<agg_in, agg_out, store, returned, manual, manual_in, rec, rec_by,
                   statsview, stopwatch>>

AggNext ==
    \/ UpdateData
    \/ ShowRecordsForPeriod

AggSpec == Init /\ [][AggNext]_vars

----------------------------------------------------------------------------
(* Claims *)

\* C1: the total_seconds stop() returns is the sum of the rounded lengths of the
\* Running segments since the last start(), however many pause/resume cycles
\* there were and however long the stopwatch was Paused; start at T0, pause at
\* T0+90, resume at T0+300, stop at T0+330 gives 120.
C1_StopTotalIsSumOfSegments ==
    /\ (op = "stop" /\ ret # None) => ret[3] = worked
    /\ StopTotal(PauseAccumulated(0, 0, 90 * TicksPerSec),
                 Some(300 * TicksPerSec), 330 * TicksPerSec) = 120

C1_Witness ==
    /\ op = "stop" /\ ret # None
    /\ nsegs >= 2
    /\ ret[3] >= 1
    /\ ret[3] = worked
    /\ ret[2] - ret[1] >= (ret[3] + 1) * TicksPerSec

\* C2: stop() called in Running or Paused returns (first start, now, total), the
\* first element being the time of the start() that opened the session, and
\* leaves the stopwatch Idle with accumulated seconds 0.
C2_StopReturnsSession ==
    [][(op' = "stop" /\ (is_running \/ is_paused)) =>
          /\ ret' # None
          /\ Len(ret') = 3
          /\ ret'[1] = Val(opened_at)
          /\ ret'[2] = clock
          /\ first_start_dt' = None
          /\ current_start_dt' = None
          /\ accumulated_sec' = 0]_vars

C2_Witness ==
    /\ op = "stop" /\ ret # None
    /\ nsegs >= 2
    /\ ret[1] = Val(opened_at)
    /\ ret[2] > ret[1]
    /\ State = "Idle"

\* C3 (as claimed): every change of stopwatch state is Idle->Running by start,
\* Running->Paused by pause, Paused->Running by resume, or Running->Idle or
\* Paused->Idle by stop.
C3_OnlyLegalTransitions ==
    [][State' # State =>
          <<State, State', op'>> \in
              { <<"Idle", "Running", "start">>,
                <<"Running", "Paused", "pause">>,
                <<"Paused", "Running", "resume">>,
                <<"Running", "Idle", "stop">>,
                <<"Paused", "Idle", "stop">> }]_vars

\* C4: start() while Running or Paused changes nothing and emits nothing.
C4_StartIsNoopWhenActive ==
    [][(op' = "start" /\ (is_running \/ is_paused)) =>
          /\ UNCHANGED <<first_start_dt, current_start_dt, accumulated_sec, timer_active>>
          /\ emitted' = <<>>]_vars

C4_Witness ==
    /\ op = "start" /\ emitted = <<>>
    /\ is_paused
    /\ accumulated_sec >= 1

\* C5: pause() outside Running and resume() outside Paused change nothing and
\* emit nothing, each time they are called.
C5_WrongStateIsNoop ==
    [][((op' = "pause" /\ ~is_running) \/ (op' = "resume" /\ ~is_paused)) =>
          /\ UNCHANGED <<first_start_dt, current_start_dt, accumulated_sec, timer_active>>
          /\ emitted' = <<>>
          /\ ret' = None]_vars

C5_Witness ==
    /\ op = "resume" /\ emitted = <<>>
    /\ is_running
    /\ Val(current_start_dt) < clock

\* C6: stop() in Idle returns None, changes no field and emits nothing, so the
\* Record action in Idle appends nothing to the store.
C6_StopInIdleIsNoop ==
    [][(op' = "stop" /\ State = "Idle") =>
          /\ ret' = None
          /\ UNCHANGED <<first_start_dt, current_start_dt, accumulated_sec, timer_active>>
          /\ emitted' = <<>>
          /\ records' = records]_vars

C6_Witness ==
    /\ op = "stop" /\ ui = "record_clicked"
    /\ ret = None /\ emitted = <<>>
    /\ State = "Idle"
    /\ records = <<>>

\* C7 (as claimed): within a session the elapsed value never drops, and it is
\* constant while the stopwatch stays Paused.
C7_ElapsedMonotone ==
    [][(State # "Idle" /\ State' # "Idle" /\ op' # "start") =>
          /\ CurrentElapsed' >= CurrentElapsed
          /\ (State = "Paused" /\ State' = "Paused") => CurrentElapsed' = CurrentElapsed]_vars

\* C8 (as claimed): accumulated seconds is never negative.
C8_AccumulatedNonNegative == accumulated_sec >= 0

\* C9 (as claimed): the total stop() returns, and the one the stopped signal
\* carries, is the accumulated seconds plus the rounded open segment, clamped
\* to >= 0.
C9_StopTotalClamped ==
    (op = "stop" /\ ret # None) =>
        /\ ret[3] = Max(worked, 0)
        /\ emitted[1] = <<"stopped", Max(worked, 0)>>

\* C10 (as claimed): while the stopwatch is not Idle the tick source is active.
C10_TickingWhileNotIdle == State # "Idle" => timer_active

\* C10 (amended): the tick source is active exactly while the stopwatch is
\* Running, and while it is Running a tick eventually follows unless the
\* stopwatch leaves Running; it is stopped while Paused.
C10_TickingWhileRunning ==
    /\ [](timer_active <=> is_running)
    /\ [](is_running => <>(op = "tick" \/ ~is_running))

C10_Witness ==
    /\ op = "tick"
    /\ is_running
    /\ nsegs >= 2
    /\ emitted[1][2] >= 1

\* C11: the tick source is cancelled when the stopwatch enters Idle: in every
\* state where the stopwatch is Idle the QTimer is inactive and the last step
\* was no _on_tick.
C11_TimerOffInIdle == State = "Idle" => (~timer_active /\ op # "tick")

C11_Witness ==
    /\ op = "stop" /\ ret # None
    /\ emitted[1][1] = "stopped"
    /\ State = "Idle"
    /\ ~timer_active
    /\ nsegs >= 2

\* C12: reading the elapsed time and handling a tick leave _first_start_dt,
\* _current_start_dt and _accumulated_sec as they were.
C12_ReadsDoNotMutate ==
    [][op' \in {"tick", "elapsed"} =>
          UNCHANGED <<first_start_dt, current_start_dt, accumulated_sec>>]_vars

C12_Witness ==
    /\ op = "tick"
    /\ is_running
    /\ accumulated_sec >= 1
    /\ CurrentElapsed > accumulated_sec

\* C13 (as claimed): every Record action taken while the stopwatch is Running or
\* Paused appends exactly one record, whose duration_sec is the total stop()
\* returned and whose date and start_time are those of the session's first start.
C13_RecordAlwaysPersists ==
    [][(ui' = "record_clicked" /\ (is_running \/ is_paused)) =>
          /\ Len(records') = Len(records) + 1
          /\ records'[Len(records')].duration_sec = ret'[3]
          /\ records'[Len(records')].date = DateOf(Val(opened_at))
          /\ records'[Len(records')].start_time = TimeOf(Val(opened_at))]_vars

\* C13 (amended): a Record action taken while the stopwatch is Running or Paused
\* stops it and shows the note dialog.  When the dialog is accepted exactly one
\* record is appended to the store, with duration_sec the total stop() returned
\* clamped at 0, date and start_time those of the session's first start and
\* end_time the time of the stop; when the dialog is cancelled nothing is stored.
C13_RecordPersistsWhenNoted ==
    [][(ui' = "record_clicked" /\ (is_running \/ is_paused)) =>
          /\ op' = "stop" /\ ret' # None
          /\ dialog' \in {"accepted", "cancelled"}
          /\ dialog' = "cancelled" => UNCHANGED store
          /\ dialog' = "accepted" =>
                /\ Len(records') = Len(records) + 1
                /\ SubSeq(records', 1, Len(records)) = records
                /\ records'[Len(records')].duration_sec = Max(ret'[3], 0)
                /\ records'[Len(records')].date = DateOf(Val(opened_at))
                /\ records'[Len(records')].start_time = TimeOf(Val(opened_at))
                /\ records'[Len(records')].end_time = TimeOf(clock)
                /\ get_records_for_date(DateOf(Val(opened_at)))' =
                       Append(get_records_for_date(DateOf(Val(opened_at))),
                              records'[Len(records')])
                /\ Len(sheet_rows') = Len(sheet_rows) + 1]_vars

C13_Witness ==
    /\ ui = "record_clicked" /\ dialog = "accepted"
    /\ op = "stop" /\ ret # None
    /\ nsegs >= 2
    /\ ret[3] >= 1
    /\ Len(records) = 1
    /\ records[1].duration_sec = ret[3]
    /\ records[1].start_time = TimeOf(Val(opened_at))
    /\ records[1].end_time > records[1].start_time

\* C14: on the manual-entry path an entry whose end time is not after its start
\* time is rejected: no record is built, the dialog stays open and the store is
\* unchanged; an entry that is accepted is stored as one record with
\* duration_sec = end - start > 0.
C14_ManualRejectsNonPositive ==
    [][manual_in' # None =>
          LET d == Val(manual_in')[1]
              start_sec == Val(manual_in')[2]
              end_sec == Val(manual_in')[3]
          IN  IF end_sec <= start_sec
              THEN manual' = "warned" /\ UNCHANGED store
              ELSE /\ manual' = "closed"
                   /\ Len(records') = Len(records) + 1
                   /\ SubSeq(records', 1, Len(records)) = records
                   /\ records'[Len(records')].date = d
                   /\ records'[Len(records')].start_time = start_sec
                   /\ records'[Len(records')].end_time = end_sec
                   /\ records'[Len(records')].duration_sec = end_sec - start_sec
                   /\ records'[Len(records')].duration_sec > 0]_vars

C14_Witness ==
    /\ manual = "warned"
    /\ manual_in # None
    /\ Val(manual_in)[3] = Val(manual_in)[2]
    /\ Len(records) >= 1

\* C17: the store is append-only.  get_records_for_date(d) is exactly the
\* records loaded or added with date d, in insertion order and with the field
\* values they were added with; no step removes or changes a stored record or
\* a written row, and changing a list get_records_for_date returned leaves the
\* store as it was.
C17_AppendOnly ==
    /\ [](\A d \in Dates \cup {2} : get_records_for_date(d) = OfDate(records, d))
    /\ [][/\ IsPrefix(records, records')
          /\ IsPrefix(sheet_rows, sheet_rows')
          /\ \A d \in Dates : IsPrefix(get_records_for_date(d), get_records_for_date(d)')
          /\ (returned # None /\ returned' # None /\ returned' # returned
                  /\ Val(returned')[1] = Val(returned)[1]
                  /\ Val(returned')[2] # get_records_for_date(Val(returned)[1]))
                => UNCHANGED store]_vars

C17_Witness ==
    /\ returned # None
    /\ Val(returned)[1] = 0
    /\ Len(get_records_for_date(0)) >= 2
    /\ Len(Val(returned)[2]) < Len(get_records_for_date(0))
    /\ get_records_for_date(0)[1] # get_records_for_date(0)[2]
    /\ Len(get_records_for_date(1)) >= 1

\* C18: get_total_minutes(d) is the sum of duration_min over
\* get_records_for_date(d) in every state of the store, after the load and after
\* every add_record, and 0 for a date without records.
C18_TotalIsDerived ==
    \A d \in Dates \cup {2} :
        /\ get_total_minutes(d) = SumMinutes(get_records_for_date(d))
        /\ get_records_for_date(d) = <<>> => get_total_minutes(d) = 0

C18_Witness ==
    /\ manual = "closed" /\ manual_in # None
    /\ Len(get_records_for_date(Val(manual_in)[1])) >= 2
    /\ get_total_minutes(Val(manual_in)[1]) >= 180
    /\ \E d \in Dates : get_records_for_date(d) = <<>> /\ get_total_minutes(d) = 0
    /\ \E i \in 1..Len(records) : records[i].duration_min = 0

\* C15 (as claimed): every record has duration_sec >= 0, whether it was built by
\* from_datetimes, by from_datetimes_with_elapsed, by the manual-entry dialog or
\* by _load_all from a row of the spreadsheet.
C15_DurationNonNegative == rec # None => Val(rec).duration_sec >= 0

\* C16: the elapsed-seconds path stores duration_sec = max(elapsed_seconds, 0);
\* on all three construction paths duration_min is duration_sec / 60 rounded to
\* the nearest integer, so |60 * duration_min - duration_sec| <= 30, and it is
\* the value the elapsed-seconds path gives for the same seconds; 125 s gives
\* 2 min.
C16_MinutesRounded ==
    /\ (rec # None /\ rec_by[1] = "elapsed") =>
           Val(rec).duration_sec = IF rec_by[4] > 0 THEN rec_by[4] ELSE 0
    /\ (rec # None /\ rec_by[1] \in {"elapsed", "datetimes", "manual"}) =>
           /\ Abs(60 * Val(rec).duration_min - Val(rec).duration_sec) <= 30
           /\ Val(rec).duration_sec >= 0 =>
                  Val(rec).duration_min =
                      from_datetimes_with_elapsed(0, 0, Val(rec).duration_sec, "").duration_min
    /\ from_datetimes_with_elapsed(0, 0, 125, "").duration_min = 2

C16_Witness ==
    /\ rec # None
    /\ rec_by[1] = "elapsed"
    /\ rec_by[4] = 125
    /\ Val(rec).duration_sec = 125
    /\ Val(rec).duration_min = 2

RECURSIVE SumSeconds(_)
SumSeconds(recs) ==
    IF recs = <<>> THEN 0 ELSE Head(recs).duration_sec + SumSeconds(Tail(recs))

\* C19 (as claimed): the seconds update_data assigns to the three periods of a
\* day sum to the day's total of duration_sec, within 1 second per record.
C19_PeriodsSumToDayTotal ==
    Abs(agg_out[1] + agg_out[2] + agg_out[3] - SumSeconds(agg_in)) <= Len(agg_in)

\* [start_time, end_time) of the record lies inside period p_idx.
WhollyInside(record, p_idx) ==
    /\ record.start_time < record.end_time
    /\ Periods[p_idx][1] * 3600 <= record.start_time
    /\ record.end_time <= Periods[p_idx][2] * 3600

\* C20 (as claimed): a record whose [start_time, end_time) lies wholly inside
\* one period gives that period all of its duration_sec and the other two 0;
\* 09:00:00-10:30:00 with 5400 s gives Morning 5400, Afternoon 0, Evening 0.
C20_WhollyInsideGetsAll ==
    /\ \A p_idx \in 1..3 :
          (Len(agg_in) = 1 /\ WhollyInside(agg_in[1], p_idx)) =>
              agg_out = [q \in 1..3 |-> IF q = p_idx THEN agg_in[1].duration_sec ELSE 0]
    /\ PeriodSecondsOf(Val(_build_record(0, 32400, 37800, ""))) = <<5400, 0, 0>>

\* The overlap, in seconds, of [s, e) with period p_idx.
OverlapSeconds(s, e, p_idx) ==
    Max(0, Min(e, Periods[p_idx][2] * 3600) - Max(s, Periods[p_idx][1] * 3600))

\* C21 (as claimed): a record is split over the periods in proportion to its
\* time overlap: period [p_start, p_end) gets duration_sec * overlap / (e - s),
\* to the second, with s and e the record's start and end time of day (e taken
\* as 24:00 when it is before s); 11:00:00-13:00:00 with 7200 s gives Morning
\* 3600 and Afternoon 3600.
C21_ProportionalSplit ==
    /\ Len(agg_in) = 1 =>
          LET s == agg_in[1].start_time
              e == IF agg_in[1].end_time < s THEN 86400 ELSE agg_in[1].end_time
          IN  e > s =>
                \A p_idx \in 1..3 :
                    Abs(agg_out[p_idx] * (e - s)
                        - agg_in[1].duration_sec * OverlapSeconds(s, e, p_idx)) < e - s
    /\ PeriodSecondsOf(Val(_build_record(0, 39600, 46800, ""))) = <<3600, 3600, 0>>

\* The day numbers of the week (Monday to Sunday) that holds day d.
WeekDatesOf(d) == { x \in (d - 6)..(d + 6) : x \div 7 = d \div 7 }

\* The day numbers of the calendar month that holds day d.
MonthDatesOf(d) ==
    { x \in FirstDay..LastDay :
        \E i \in 1..(Len(MonthStarts) - 1) :
            /\ MonthStarts[i] <= d /\ d < MonthStarts[i + 1]
            /\ MonthStarts[i] <= x /\ x < MonthStarts[i + 1] }

\* The records ever stored whose date, the date their start falls on, is in D.
StoredIn(D) ==
    LET InRange(r) == r.date \in D
    IN  SelectSeq(records, InRange)

\* C22: while the stats view is on display, the total it holds is the plain sum
\* of duration_sec over every stored record dated within the Monday-to-Sunday
\* week of the view's current date (week mode) or within that date's calendar
\* month (month mode); each record counts once, under the date of its start,
\* and a range without records totals 0.
C22_RangeTotalIsPlainSum ==
    stack = "stats" =>
        /\ mode = "week" => total_shown = SumSeconds(StoredIn(WeekDatesOf(current_date)))
        /\ mode = "month" => total_shown = SumSeconds(StoredIn(MonthDatesOf(current_date)))
        /\ (mode = "week" /\ StoredIn(WeekDatesOf(current_date)) = <<>>) => total_shown = 0
        /\ (mode = "month" /\ StoredIn(MonthDatesOf(current_date)) = <<>>) => total_shown = 0

\* The week of 2024-01-01 is on display with records on its Sunday and on an
\* earlier day of it, and the store also holds a session that began on the
\* Sunday before and ended inside the week.
C22_Witness ==
    /\ stack = "stats"
    /\ mode = "week"
    /\ current_date = Today
    /\ \E i \in 1..Len(records) : records[i].date = 6
    /\ \E i \in 1..Len(records) : records[i].date \in {0, 1}
    /\ \E i \in 1..Len(records) : records[i].date = -1
    /\ total_shown > 0

\* C23 (as claimed): in the period allocation a record whose end time of day is
\* before its start time of day is treated as ending at 24:00: its whole
\* duration_sec goes to the periods that meet [start_time, 24:00), nothing to a
\* period that ends before start_time; a record whose end equals its start
\* contributes nothing.
C23_WrapsToMidnight ==
    Len(agg_in) = 1 =>
        /\ agg_in[1].end_time < agg_in[1].start_time =>
              /\ Abs(agg_out[1] + agg_out[2] + agg_out[3] - agg_in[1].duration_sec) <= 2
              /\ \A p_idx \in 1..3 :
                    OverlapSeconds(agg_in[1].start_time, 86400, p_idx) = 0
                        => agg_out[p_idx] = 0
        /\ agg_in[1].end_time = agg_in[1].start_time => agg_out = <<0, 0, 0>>

IsListed(record, list) == \E j \in 1..Len(list) : list[j] = record

\* C30 (as claimed): the list opened from a period block holds a record of the
\* day exactly when update_data gives that record a positive overlap with the
\* period, so every record that adds seconds to the block is listed for it;
\* and every record of the day whose end time is after its start time is
\* listed for at least one period.
C30_ListMatchesBlock ==
    (listed # None /\ Val(listed)[1] # None) =>
        LET p_idx == Val(Val(listed)[1])
            list == Val(listed)[2]
        IN  \A i \in 1..Len(agg_in) :
               /\ IsListed(agg_in[i], list) <=> CountedIn(agg_in[i], p_idx)
               /\ PeriodSecondsOf(agg_in[i])[p_idx] > 0 => IsListed(agg_in[i], list)
               /\ agg_in[i].end_time > agg_in[i].start_time =>
                     \E q \in 1..3 :
                        IsListed(agg_in[i], _show_records_for_period(agg_in, Some(q)))

\* The records of the rows of the sheet that parse, in file order.
WellFormedRecords ==
    LET parsed == [i \in 1..Len(sheet_rows) |-> LoadRow(sheet_header, sheet_rows[i])]
        Parses(x) == x # None
        good == SelectSeq(parsed, Parses)
    IN  [i \in 1..Len(good) |-> Val(good[i])]

\* C24: a malformed row is skipped and loading goes on: the index holds exactly
\* the records of the well-formed rows of the file, in file order, wherever the
\* malformed rows are.
C24_MalformedRowsSkipped ==
    /\ \A d \in Dates \cup {2} : get_records_for_date(d) = OfDate(WellFormedRecords, d)
    /\ DOMAIN date_to_records = {WellFormedRecords[i].date : i \in 1..Len(WellFormedRecords)}

C24_Witness ==
    /\ manual = "closed" /\ manual_in = None
    /\ Len(sheet_rows) = 2
    /\ LoadRow(sheet_header, sheet_rows[1]) = None
    /\ LoadRow(sheet_header, sheet_rows[2]) # None
    /\ get_records_for_date(Val(LoadRow(sheet_header, sheet_rows[2])).date)
           = <<Val(LoadRow(sheet_header, sheet_rows[2]))>>

\* C25: rebuilding the index from the file with _load_all gives the per-date
\* record lists and the per-date minute totals the store already holds, after
\* any sequence of add_record calls, also on a file whose header had no
\* duration_sec column; a row without a duration_sec cell loads with
\* duration_sec = 60 * duration_min.
C25_ReloadRoundTrip ==
    /\ LoadRecords(EnsureHeader(sheet_header), sheet_rows) = date_to_records
    /\ LoadTotals(EnsureHeader(sheet_header), sheet_rows) = date_to_total_minutes
    /\ \A i \in 1..Len(sheet_rows) :
          LET r == LoadRow(sheet_header, sheet_rows[i])
          IN  (r # None /\ CellOf(sheet_header, sheet_rows[i], "duration_sec") = None)
                  => Val(r).duration_sec = 60 * Val(r).duration_min

C25_Witness ==
    /\ manual = "closed" /\ manual_in # None
    /\ sheet_header = Append(LegacyHeader, "duration_sec")
    /\ Len(sheet_rows[1]) = Len(LegacyHeader)
    /\ LoadRow(sheet_header, sheet_rows[1]) # None
    /\ Len(sheet_rows[Len(sheet_rows)]) = Len(sheet_header)
    /\ records[Len(records)].duration_sec # 60 * records[Len(records)].duration_min
    /\ records[Len(records)].date = records[1].date

\* C26 (as claimed): in every reachable state exactly one of Idle, Running,
\* Paused holds by the code's predicates: is_running() and is_paused() are
\* never both true, _current_start_dt set implies _first_start_dt set, and
\* _first_start_dt set with _current_start_dt unset implies is_paused().
C26_ExactlyOneState ==
    /\ ~(is_running /\ is_paused)
    /\ current_start_dt # None => first_start_dt # None
    /\ (first_start_dt # None /\ current_start_dt = None) => is_paused

\* C27: a stopwatch operation that changes the state emits exactly one
\* transition signal, after the fields are updated (the slot sees the new
\* state): started, paused, resumed, or stopped with the total stop() returns,
\* the last followed by tick(0, "00:00:00"); an operation that changes nothing
\* emits nothing.
C27_OneSignalPerTransition ==
    [][op' \in {"start", "pause", "resume", "stop"} =>
          IF <<first_start_dt', current_start_dt'>> = <<first_start_dt, current_start_dt>>
          THEN emitted' = <<>> /\ UNCHANGED <<disp_running, disp_paused>>
          ELSE /\ emitted'[1] = CASE op' = "start" -> <<"started">>
                                  [] op' = "pause" -> <<"paused">>
                                  [] op' = "resume" -> <<"resumed">>
                                  [] op' = "stop" -> <<"stopped", ret'[3]>>
               /\ Cardinality({i \in 1..Len(emitted') :
                      emitted'[i][1] \in {"started", "paused", "resumed", "stopped"}}) = 1
               /\ op' = "stop" => emitted' = << <<"stopped", ret'[3]>>, <<"tick", 0, Fmt(0)>> >>
               /\ \A i \in 2..Len(emitted') : emitted'[i] = <<"tick", 0, Fmt(0)>>
               /\ disp_running' = (current_start_dt' # None)
               /\ disp_paused' = (first_start_dt' # None /\ current_start_dt' = None
                                    /\ accumulated_sec' >= 0)]_vars

C27_Witness ==
    /\ op = "stop" /\ ret # None
    /\ emitted = << <<"stopped", ret[3]>>, <<"tick", 0, <<0, 0, 0>>>> >>
    /\ ret[3] >= 1
    /\ nsegs >= 2
    /\ ~disp_running /\ ~disp_paused

\* C28 (as claimed): the state TimerDisplay mirrors is that of the TimerService,
\* so the action button requests the operation valid in the current state
\* (start in Idle, pause in Running, resume in Paused) and the Record button is
\* visible exactly when the stopwatch is not Idle.
C28_DisplayMirrorsState ==
    /\ disp_running = is_running
    /\ disp_paused = is_paused
    /\ first_start_dt = None /\ current_start_dt = None => RequestedOperation = "start"
    /\ is_running => RequestedOperation = "pause"
    /\ is_paused => RequestedOperation = "resume"
    /\ stop_btn_visible <=> ~(first_start_dt = None /\ current_start_dt = None)

\* C29 (as claimed): a record made by the stopwatch path has duration_sec no
\* greater than the span from the session's start to its end, in seconds, up
\* to one second of rounding per Running segment, and equal to the span (up
\* to that rounding) when the session was never paused.
C29_WorkedWithinSpan ==
    [][(ui' = "record_clicked" /\ dialog' = "accepted") =>
          LET r == records'[Len(records')]
              span == ret'[2] - ret'[1]
          IN  /\ r.duration_sec * TicksPerSec <= span + nsegs * TicksPerSec
              /\ (nsegs = 1 /\ is_running) =>
                     Abs(r.duration_sec * TicksPerSec - span) <= TicksPerSec]_vars

====
